---- MODULE Spec2Model ----
(***************************************************************************)
(* SentenceTransformerManager (sentence_transformer_manager.py): one call  *)
(* of embed_text, step by step, with the collaborators it consumes         *)
(* (GpuEmbeddingUtil, SentenceTransformerModelCache, the model's encode)   *)
(* as nondeterministic environments.                                       *)
(***************************************************************************)
EXTENDS Integers, Sequences, FiniteSets, TLC

VARIABLES pc, inputs, is_query_context, device_type, model, prompt_name,
          embeddings, exc, outcome, calls

vars == <<pc, inputs, is_query_context, device_type, model, prompt_name,
          embeddings, exc, outcome, calls>>

\* ---------------------------------------------------------------- bounds
MaxBatch == 2
MaxMsgLen == 2

\* ------------------------------------------------------------- constants
QUERY_PROMPT_NAME == "query"
NoneValue == "<None>"
ModelName == "self._model_name"
ModelCacheDir == "self._model_cache_dir"

TensorA == "The size of tensor a"
TensorB == "must match the size of tensor b"
Marker == "Sequence length must be less than max_position_embeddings"
OtherText == "..."

\* ------------------------------------------------------------ the inputs
\* One input: a str of strlen characters, or an Image whose str() has strlen
\* characters.
InputValues ==
    { [type |-> "str", strlen |-> 5],
      [type |-> "str", strlen |-> 5000],
      [type |-> "Image", strlen |-> 60] }

Batches == UNION { [1..n -> InputValues] : n \in 0..MaxBatch }

\* ------------------------------------------------------ the collaborators
DeviceTypes == {"cpu", "cuda"}

\* Model handles the cache can return: the declared prompts and the default
\* prompt name (absent, or one of the declared prompts).
Models ==
    { [prompts |-> {}, default_prompt_name |-> NoneValue],
      [prompts |-> {"passage"}, default_prompt_name |-> "passage"],
      [prompts |-> {"query"}, default_prompt_name |-> NoneValue],
      [prompts |-> {"query", "passage"}, default_prompt_name |-> "passage"] }

NoModel == [prompts |-> {}, default_prompt_name |-> "<no model>"]

\* Exception kinds encode can raise, with their direct base class.
ExceptionKinds ==
    {"RuntimeError", "NotImplementedError", "ValueError", "UnicodeError", "TimeoutError"}

BaseOf(kind) ==
    CASE kind = "NotImplementedError" -> "RuntimeError"
      [] kind = "UnicodeError" -> "ValueError"
      [] kind = "TimeoutError" -> "OSError"
      [] OTHER -> "Exception"

RECURSIVE IsSubclass(_, _)
IsSubclass(kind, base) ==
    IF kind = base THEN TRUE
    ELSE IF kind = "Exception" THEN FALSE
    ELSE IsSubclass(BaseOf(kind), base)

Phrases == {TensorA, TensorB, Marker, OtherText}
Messages == UNION { [1..n -> Phrases] : n \in 0..MaxMsgLen }

NoExc == [kind |-> "none", msg |-> <<>>, cause |-> <<>>]
Exceptions == { [kind |-> k, msg |-> m, cause |-> <<>>] : k \in ExceptionKinds, m \in Messages }

\* ------------------------------------------------------------ str methods
\* pat in s
Contains(s, pat) ==
    \E i \in 0..(Len(s) - Len(pat)) :
        \A j \in 1..Len(pat) : s[i + j] = pat[j]

\* s.startswith(pat)
StartsWith(s, pat) ==
    /\ Len(pat) <= Len(s)
    /\ \A j \in 1..Len(pat) : s[j] = pat[j]

\* --------------------------------------------------------------- results
Unbound == [shape |-> -1, data |-> <<>>]
NoOutcome == [kind |-> "none", value |-> <<>>, exc |-> NoExc]
Return(v) == [kind |-> "return", value |-> v, exc |-> NoExc]
Raise(e) == [kind |-> "raise", value |-> <<>>, exc |-> e]
ReturnedNone == [kind |-> "returned", value |-> <<>>, exc |-> NoExc]

\* The ndarray encode returns on success: one row per input, in input order.
Row(x) == [embedding_of |-> x]
EncodedArray(xs) == [shape |-> Len(xs), data |-> [i \in 0..(Len(xs) - 1) |-> Row(xs[i + 1])]]

ToList_Reversed(arr) == [i \in 1..arr.shape |-> arr.data[arr.shape - i]]
ToList(arr) == [i \in 1..arr.shape |-> arr.data[i - 1]]

Vector(embedding) == [type |-> "Vector", value |-> embedding]

\* ------------------------------------------------------ the predicate table
RuntimeErrorPredicate_Either(e) ==
    Contains(e.msg, <<TensorA>>) \/ Contains(e.msg, <<TensorB>>)
RuntimeErrorPredicate(e) ==
    Contains(e.msg, <<TensorA>>) /\ Contains(e.msg, <<TensorB>>)

ValueErrorPredicate_Anywhere(e) == Contains(e.msg, <<Marker>>)
ValueErrorPredicate(e) == StartsWith(e.msg, <<Marker>>)

\* EXCEEDED_LENGTH_EXCEPTION_PREDICATE_BY_EXCEPTION_TYPE.get(type(exception))
\* and predicate(exception)
IsExceededLength_IsInstance(e) ==
    \/ IsSubclass(e.kind, "RuntimeError") /\ RuntimeErrorPredicate(e)
    \/ IsSubclass(e.kind, "ValueError") /\ ValueErrorPredicate(e)
IsExceededLength(e) ==
    \/ e.kind = "RuntimeError" /\ RuntimeErrorPredicate(e)
    \/ e.kind = "ValueError" /\ ValueErrorPredicate(e)

RECURSIVE MaxOver(_, _)
MaxOver(f, s) ==
    IF Len(s) = 1 THEN f[1]
    ELSE LET m == MaxOver(Tail(f), Tail(s)) IN IF f[1] >= m THEN f[1] ELSE m

LongestInputLen_NoIsInstance(xs) ==
    MaxOver([i \in 1..Len(xs) |-> xs[i].strlen], xs)
LongestInputLen(xs) ==
    MaxOver([i \in 1..Len(xs) |-> IF xs[i].type = "str" THEN xs[i].strlen ELSE 0], xs)

EmbeddingException(e, xs) ==
    [kind |-> "EmbeddingException",
     msg |-> <<"Model ", ModelName, " failed to encode inputs - input was too long. ",
               "Try shortening the input text.\n",
               "Longest input length: ", ToString(LongestInputLen(xs)), " chars">>,
     cause |-> <<e>>]

\* __handle_exceeded_length_exception: what the handler does with the caught
\* exception (it has no normal return).
HandleExceededLengthException_Swallow(e, xs) ==
    IF IsExceededLength(e) THEN Raise(EmbeddingException(e, xs)) ELSE ReturnedNone
HandleExceededLengthException(e, xs) ==
    IF IsExceededLength(e) THEN Raise(EmbeddingException(e, xs)) ELSE Raise(e)

\* except (RuntimeError, ValueError)
CaughtByExcept(e) == IsSubclass(e.kind, "RuntimeError") \/ IsSubclass(e.kind, "ValueError")

CalculatePromptName_IgnoreContext(m, ctx) ==
    IF QUERY_PROMPT_NAME \in m.prompts THEN QUERY_PROMPT_NAME ELSE m.default_prompt_name
CalculatePromptName(m, ctx) ==
    IF QUERY_PROMPT_NAME \in m.prompts /\ ctx THEN QUERY_PROMPT_NAME ELSE m.default_prompt_name

\* ------------------------------------------------------------------ state
Init ==
    /\ pc = "idle"
    /\ inputs = <<>>
    /\ is_query_context = FALSE
    /\ device_type = NoneValue
    /\ model = NoModel
    /\ prompt_name = NoneValue
    /\ embeddings = Unbound
    /\ exc = NoExc
    /\ outcome = NoOutcome
    /\ calls = <<>>

\* embed_text(inputs, context): the entry, with its fast path.
EmbedText_NoFastPath(xs, ctx) ==
    /\ pc = "idle"
    /\ inputs' = xs
    /\ is_query_context' = ctx
    /\ pc' = "get_device_type"
    /\ UNCHANGED <<device_type, model, prompt_name, embeddings, exc, outcome, calls>>
EmbedText(xs, ctx) ==
    /\ pc = "idle"
    /\ inputs' = xs
    /\ is_query_context' = ctx
    /\ IF Len(xs) = 0
       THEN /\ outcome' = Return(<<>>)
            /\ pc' = "done"
       ELSE /\ outcome' = outcome
            /\ pc' = "get_device_type"
    /\ UNCHANGED <<device_type, model, prompt_name, embeddings, exc, calls>>

\* _get_embedding_model, first line: GpuEmbeddingUtil.get_device_type(number_of_inputs)
GetDeviceType ==
    /\ pc = "get_device_type"
    /\ \E d \in DeviceTypes :
        /\ device_type' = d
        /\ calls' = Append(calls, [op |-> "get_device_type", number_of_inputs |-> Len(inputs), ret |-> d])
    /\ pc' = "initialize_model"
    /\ UNCHANGED <<inputs, is_query_context, model, prompt_name, embeddings, exc, outcome>>

\* _get_embedding_model, second line: SentenceTransformerModelCache.initialize_model(...)
InitializeModel_DefaultDevice ==
    /\ pc = "initialize_model"
    /\ \E m \in Models :
        /\ model' = m
        /\ calls' = Append(calls, [op |-> "initialize_model", model_name |-> ModelName,
                                   device_type |-> "cpu", model_cache_dir |-> ModelCacheDir,
                                   ret |-> m])
    /\ pc' = "calculate_prompt_name"
    /\ UNCHANGED <<inputs, is_query_context, device_type, prompt_name, embeddings, exc, outcome>>
InitializeModel ==
    /\ pc = "initialize_model"
    /\ \E m \in Models :
        /\ model' = m
        /\ calls' = Append(calls, [op |-> "initialize_model", model_name |-> ModelName,
                                   device_type |-> device_type, model_cache_dir |-> ModelCacheDir,
                                   ret |-> m])
    /\ pc' = "calculate_prompt_name"
    /\ UNCHANGED <<inputs, is_query_context, device_type, prompt_name, embeddings, exc, outcome>>

\* prompt_name = self._calculate_prompt_name(model, context)
SelectPrompt ==
    /\ pc = "calculate_prompt_name"
    /\ prompt_name' = CalculatePromptName(model, is_query_context)
    /\ calls' = Append(calls, [op |-> "calculate_prompt_name", model |-> model,
                               is_query_context |-> is_query_context,
                               ret |-> CalculatePromptName(model, is_query_context)])
    /\ pc' = "encode"
    /\ UNCHANGED <<inputs, is_query_context, device_type, model, embeddings, exc, outcome>>

EncodeCall == [op |-> "encode", model |-> model, inputs |-> inputs, prompt_name |-> prompt_name]

\* The try statement of _embed: model.encode(list(inputs), prompt_name=prompt_name)
\* returns the array, or raises; except (RuntimeError, ValueError) catches.
Encode_WrapAll ==
    /\ pc = "encode"
    /\ calls' = Append(calls, EncodeCall)
    /\ \/ /\ embeddings' = EncodedArray(inputs)
          /\ pc' = "tolist"
          /\ UNCHANGED <<exc, outcome>>
       \/ \E e \in Exceptions :
            /\ exc' = e
            /\ outcome' = Raise(EmbeddingException(e, inputs))
            /\ pc' = "done"
            /\ UNCHANGED embeddings
    /\ UNCHANGED <<inputs, is_query_context, device_type, model, prompt_name>>
Encode ==
    /\ pc = "encode"
    /\ calls' = Append(calls, EncodeCall)
    /\ \/ /\ embeddings' = EncodedArray(inputs)
          /\ pc' = "tolist"
          /\ UNCHANGED <<exc, outcome>>
       \/ \E e \in Exceptions :
            /\ exc' = e
            /\ IF CaughtByExcept(e)
               THEN /\ pc' = "handle"
                    /\ outcome' = outcome
               ELSE /\ pc' = "done"
                    /\ outcome' = Raise(e)
            /\ UNCHANGED embeddings
    /\ UNCHANGED <<inputs, is_query_context, device_type, model, prompt_name>>

\* self.__handle_exceeded_length_exception(e, inputs) in the except clause
HandleException ==
    /\ pc = "handle"
    /\ LET h == HandleExceededLengthException(exc, inputs) IN
        IF h.kind = "raise"
        THEN /\ outcome' = h
             /\ pc' = "done"
        ELSE /\ outcome' = outcome
             /\ pc' = "tolist"
    /\ UNCHANGED <<inputs, is_query_context, device_type, model, prompt_name, embeddings, exc, calls>>

\* return embeddings.tolist(), and embed_text's [Vector(embedding) for ...];
\* reading embeddings while it is unbound raises UnboundLocalError.
ConvertResult ==
    /\ pc = "tolist"
    /\ IF embeddings = Unbound
       THEN outcome' = Raise([kind |-> "UnboundLocalError", msg |-> <<"embeddings">>, cause |-> <<>>])
       ELSE outcome' = Return(LET rows == ToList(embeddings) IN
                              [i \in 1..Len(rows) |-> Vector(rows[i])])
    /\ pc' = "done"
    /\ UNCHANGED <<inputs, is_query_context, device_type, model, prompt_name, embeddings, exc, calls>>

\* The call is over; the manager keeps nothing of it.
Finish ==
    /\ pc = "done"
    /\ pc' = "idle"
    /\ inputs' = <<>>
    /\ is_query_context' = FALSE
    /\ device_type' = NoneValue
    /\ model' = NoModel
    /\ prompt_name' = NoneValue
    /\ embeddings' = Unbound
    /\ exc' = NoExc
    /\ outcome' = NoOutcome
    /\ calls' = <<>>

Next ==
    \/ \E xs \in Batches, ctx \in BOOLEAN : EmbedText(xs, ctx)
    \/ GetDeviceType
    \/ InitializeModel
    \/ SelectPrompt
    \/ Encode
    \/ HandleException
    \/ ConvertResult
    \/ Finish

Spec == Init /\ [][Next]_vars

\* ------------------------------------------------------------ properties
InCall == pc # "idle"
Finished == pc = "done"
EncodeRaised == exc # NoExc
EncodeEntries == { i \in DOMAIN calls : calls[i].op = "encode" }
Translated == outcome.kind = "raise" /\ outcome.exc.kind = "EmbeddingException"
PropagatedUnchanged == outcome = Raise(exc)

HasPhrase(msg, p) == \E i \in DOMAIN msg : msg[i] = p
HasBothTensorPhrases(msg) == HasPhrase(msg, TensorA) /\ HasPhrase(msg, TensorB)
BeginsWithMarker(msg) == Len(msg) >= 1 /\ msg[1] = Marker

\* C1: a call with an empty input sequence, under either context flag, returns
\* an empty sequence at once, and get_device_type, initialize_model and encode
\* are each invoked zero times during it.
C1_EmptyInputFastPath ==
    (InCall /\ Len(inputs) = 0) =>
        /\ Finished
        /\ outcome = Return(<<>>)
        /\ calls = <<>>
        /\ device_type = NoneValue
        /\ model = NoModel

C1_Witness ==
    /\ Finished
    /\ Len(inputs) = 0
    /\ is_query_context
    /\ outcome = Return(<<>>)
    /\ calls = <<>>

\* C2: when encode succeeded on a non-empty batch of N inputs with one row per
\* input in input order, embed_text returns exactly N Vectors and the i-th
\* Vector wraps the i-th row encode returned, which is the row of the i-th input.
C2_OneVectorPerInputInOrder ==
    (Finished /\ Len(inputs) > 0 /\ embeddings # Unbound) =>
        /\ outcome.kind = "return"
        /\ Len(outcome.value) = Len(inputs)
        /\ \A i \in 1..Len(inputs) :
            /\ outcome.value[i].type = "Vector"
            /\ outcome.value[i].value = embeddings.data[i - 1]
            /\ outcome.value[i].value.embedding_of = inputs[i]

C2_Witness ==
    /\ Finished
    /\ Len(inputs) = 2
    /\ inputs[1] # inputs[2]
    /\ outcome.kind = "return"
    /\ Len(outcome.value) = 2
    /\ outcome.value[2].value.embedding_of = inputs[2]

\* C3: the prompt name encode receives is "query" exactly when the model
\* declares a prompt named "query" and the context is query-time; in the three
\* other combinations it is the model's default prompt name (possibly absent).
C3_PromptSelection ==
    \A i \in EncodeEntries :
        LET declares == "query" \in calls[i].model.prompts
            p == calls[i].prompt_name
            default == calls[i].model.default_prompt_name IN
        /\ (declares /\ is_query_context) => p = "query"
        /\ (declares /\ ~is_query_context) => p = default
        /\ (~declares /\ is_query_context) => p = default
        /\ (~declares /\ ~is_query_context) => p = default
        /\ p \in {"query", default}

C3_Witness ==
    /\ \E i \in EncodeEntries :
        /\ "query" \in calls[i].model.prompts
        /\ calls[i].model.default_prompt_name = "passage"
        /\ calls[i].prompt_name = "query"
    /\ is_query_context

\* C4: a RuntimeError from encode whose message contains both tensor substrings
\* surfaces as the capacity-exceeded EmbeddingException; a RuntimeError whose
\* message contains only one of them, or neither, surfaces unchanged.
C4_RuntimeErrorTranslation ==
    (Finished /\ exc.kind = "RuntimeError") =>
        IF HasBothTensorPhrases(exc.msg) THEN Translated ELSE PropagatedUnchanged

C4_Witness ==
    /\ Finished
    /\ exc.kind = "RuntimeError"
    /\ exc.msg = <<TensorA, TensorB>>
    /\ Translated

\* C5: a ValueError from encode whose message begins with the marker surfaces
\* as the capacity-exceeded EmbeddingException; a ValueError with any other
\* message, the marker elsewhere than at the start included, surfaces unchanged.
C5_ValueErrorTranslation ==
    (Finished /\ exc.kind = "ValueError") =>
        IF BeginsWithMarker(exc.msg) THEN Translated ELSE PropagatedUnchanged

C5_Witness ==
    /\ Finished
    /\ exc.kind = "ValueError"
    /\ exc.msg = <<OtherText, Marker>>
    /\ PropagatedUnchanged

\* C6: an error from encode whose kind is neither RuntimeError nor ValueError
\* leaves embed_text as the same error, kind and message, whatever its message
\* says; it is never translated and never swallowed.
C6_OtherKindsPropagate ==
    (EncodeRaised /\ exc.kind \notin {"RuntimeError", "ValueError"}) =>
        /\ outcome.kind # "return"
        /\ ~Translated
        /\ pc \in {"handle", "done"}
        /\ Finished => (outcome.kind = "raise" /\ outcome.exc.kind = exc.kind
                        /\ outcome.exc.msg = exc.msg /\ outcome.exc = exc)

C6_Witness ==
    /\ Finished
    /\ exc.kind = "TimeoutError"
    /\ BeginsWithMarker(exc.msg)
    /\ PropagatedUnchanged

\* C7: a capacity-exceeded error reports the maximum over the batch of the
\* character length of each str input, other inputs counting 0 (so 0 for a
\* batch without str inputs), names the configured model and has the original
\* encode error as its cause.
C7_LongestInputDiagnostic ==
    (Finished /\ Translated) =>
        LET strs == { i \in DOMAIN inputs : inputs[i].type = "str" }
            reported == outcome.exc.msg[6] IN
        /\ strs = {} => reported = "0"
        /\ strs # {} => \E i \in strs :
                            /\ reported = ToString(inputs[i].strlen)
                            /\ \A j \in strs : inputs[j].strlen <= inputs[i].strlen
        /\ outcome.exc.msg[2] = ModelName
        /\ outcome.exc.cause = <<exc>>

C7_Witness ==
    /\ Finished
    /\ Translated
    /\ Len(inputs) = 2
    /\ inputs[1] = [type |-> "str", strlen |-> 5]
    /\ inputs[2] = [type |-> "str", strlen |-> 5000]
    /\ exc.kind = "ValueError"
    /\ ~is_query_context
    /\ outcome.exc.msg[6] = "5000"

\* C8: in a call with a non-empty batch of N inputs the collaborators are
\* called in this order, each once: get_device_type(N), initialize_model(model
\* name, the device just returned, cache directory), prompt selection on the
\* handle just returned, encode on that handle with the whole input list and
\* the selected prompt; no handle is held before this call acquired one.
C8_CallOrder ==
    InCall =>
        /\ Len(calls) <= 4
        /\ (Len(calls) < 2) => model = NoModel
        /\ (pc \in {"tolist", "handle"} \/ (Finished /\ Len(inputs) > 0)) => Len(calls) = 4
        /\ Len(calls) >= 1 =>
            /\ calls[1].op = "get_device_type"
            /\ calls[1].number_of_inputs = Len(inputs)
        /\ Len(calls) >= 2 =>
            /\ calls[2].op = "initialize_model"
            /\ calls[2].model_name = ModelName
            /\ calls[2].device_type = calls[1].ret
            /\ calls[2].model_cache_dir = ModelCacheDir
        /\ Len(calls) >= 3 =>
            /\ calls[3].op = "calculate_prompt_name"
            /\ calls[3].model = calls[2].ret
        /\ Len(calls) >= 4 =>
            /\ calls[4].op = "encode"
            /\ calls[4].model = calls[2].ret
            /\ calls[4].inputs = inputs
            /\ calls[4].prompt_name = calls[3].ret

C8_Witness ==
    /\ Finished
    /\ Len(calls) = 4
    /\ calls[1].ret = "cuda"
    /\ calls[2].device_type = "cuda"
    /\ calls[4].op = "encode"

\* C9: when encode raised a RuntimeError or ValueError the call ends by raising
\* the translated error or the original one and returns no value; the result
\* conversion is reached only after encode succeeded; encode is invoked at most
\* once per call.
C9_FailureAlwaysRaises ==
    /\ Cardinality(EncodeEntries) <= 1
    /\ pc = "tolist" => (~EncodeRaised /\ embeddings # Unbound)
    /\ (EncodeRaised /\ exc.kind \in {"RuntimeError", "ValueError"}) =>
        /\ pc \in {"handle", "done"}
        /\ embeddings = Unbound
        /\ Finished =>
            /\ outcome.kind = "raise"
            /\ \/ outcome.exc = exc
               \/ outcome.exc.kind = "EmbeddingException" /\ outcome.exc.cause = <<exc>>

C9_Witness ==
    /\ Finished
    /\ exc.kind = "ValueError"
    /\ exc.msg = <<TensorA>>
    /\ outcome.kind = "raise"
    /\ outcome.exc = exc
    /\ Cardinality(EncodeEntries) = 1

\* C10: the predicate is chosen by the exact kind of the error: a RuntimeError
\* that begins with the ValueError marker and lacks the two tensor substrings,
\* a ValueError that contains both tensor substrings and does not begin with
\* the marker, and an error of a strict subtype of either kind, whatever its
\* message, all propagate unchanged.
C10_PredicateByExactKind ==
    Finished =>
        /\ (exc.kind = "RuntimeError" /\ BeginsWithMarker(exc.msg)
                /\ ~HasBothTensorPhrases(exc.msg)) => PropagatedUnchanged
        /\ (exc.kind = "ValueError" /\ HasBothTensorPhrases(exc.msg)
                /\ ~BeginsWithMarker(exc.msg)) => PropagatedUnchanged
        /\ exc.kind \in {"NotImplementedError", "UnicodeError"} => PropagatedUnchanged

C10_Witness ==
    /\ Finished
    /\ exc.kind = "NotImplementedError"
    /\ exc.msg = <<TensorA, TensorB>>
    /\ PropagatedUnchanged

====
